---- MODULE Spec2Model ----
(***************************************************************************)
(* Model of the SBWSZ MCP server (index.ts): the call_tool dispatcher with *)
(* its six remote-call functions and response mapping, and the stateless   *)
(* HTTP front end with its start-up mode selection.                        *)
(*                                                                         *)
(* Strings are sequences of tokens.  A caller-supplied string is a         *)
(* sequence of one-character tokens drawn from Alphabet; literal pieces of *)
(* the program text (the base URL, "/set/", "page", ...) are one token     *)
(* each.  Chinese message literals are written in English.                 *)
(***************************************************************************)
EXTENDS Integers, Sequences, FiniteSets, TLC

(* ---------------- bounds of the model ---------------- *)
MaxLen == 2      \* longest caller-supplied string
MaxReq == 2      \* HTTP requests of a run, which may be in flight together

(* ---------------- input domains ---------------- *)
Alphabet == {"a", "A", "&"}

RECURSIVE StringsUpTo(_)
StringsUpTo(n) ==
  IF n = 0 THEN {<<>>}
  ELSE LET S == StringsUpTo(n - 1)
       IN  S \cup {Append(s, c) : s \in {t \in S : Len(t) = n - 1}, c \in Alphabet}

Strings == StringsUpTo(MaxLen)
OrderStrings == {<<"a">>, <<"&", " ">>}
PageNumbers == {1, 20}

\* an optional value: <<>> when the property is undefined, <<v>> otherwise
Opt(S) == {<<>>} \cup {<<v>> : v \in S}
Has(o) == o # <<>>
Val(o) == o[1]

\* an argument whose JSON type is not the one the schema declares: <<text, type>>,
\* the text being what String(value) gives; nothing in the server checks types
Foreign(text, type) == <<text, type>>
IsForeign(o) == Len(o) = 2
IsNull(o) == Len(o) = 2 /\ o[2] = "null"
JsNull == Foreign(<<"null">>, "null")
NumberForString == Foreign(<<"7">>, "number")
StringForNumber == Foreign(<<"1", "&", "order", "=", "x">>, "string")
StringForBoolean == Foreign(<<"yes">>, "string")

(* ---------------- constants of the program ---------------- *)
BASE_URL == <<"https://www.sbwsz.com/api/v1">>

KnownTools == {"get_card_by_set_and_number", "search_cards", "get_sets",
               "get_set", "get_set_cards", "hzls"}
ToolNames == KnownTools \cup {"not_a_tool"}

(* ---------------- string helpers of the runtime ---------------- *)
upperChar(c) == IF c = "a" THEN "A" ELSE c

RECURSIVE toUpperCase(_)
toUpperCase(s) ==
  IF s = <<>> THEN <<>> ELSE <<upperChar(Head(s))>> \o toUpperCase(Tail(s))

escapeChar(c) ==
  CASE c = "&" -> "%26"
    [] c = " " -> "%20"
    [] c = "=" -> "%3D"
    [] c = "?" -> "%3F"
    [] OTHER   -> c

RECURSIVE encodeChars(_)
encodeChars(s) ==
  IF s = <<>> THEN <<>> ELSE <<escapeChar(Head(s))>> \o encodeChars(Tail(s))

\* encodeURIComponent(x): an undefined argument is first converted to the
\* string "undefined"
encodeURIComponent(o) ==
  IF Has(o) THEN encodeChars(Val(o)) ELSE <<"undefined">>

formEscapeChar(c) ==
  CASE c = "&" -> "%26"
    [] c = " " -> "+"
    [] c = "=" -> "%3D"
    [] c = "?" -> "%3F"
    [] OTHER   -> c

RECURSIVE formEncode(_)
formEncode(s) ==
  IF s = <<>> THEN <<>> ELSE <<formEscapeChar(Head(s))>> \o formEncode(Tail(s))

\* template-literal / toString rendering of a number or a boolean
numberToString(n) == <<ToString(n)>>
booleanToString(b) == IF b THEN <<"true">> ELSE <<"false">>

\* `${x}` and x.toString() of an argument declared a number or a boolean
numberText(o) == IF IsForeign(o) THEN o[1] ELSE numberToString(Val(o))
booleanText(o) == IF IsForeign(o) THEN o[1] ELSE booleanToString(Val(o))

(* ---------------- construction of the outbound URL ---------------- *)
\* handleGetSet, line 250
GetSetUrlAsGiven(setCode) ==
  BASE_URL \o <<"/set/">> \o encodeChars(setCode)
GetSetUrl(setCode) ==
  BASE_URL \o <<"/set/">> \o encodeChars(toUpperCase(setCode))

\* handleGetCardBySetAndNumber, line 304
GetCardUrl(set, collectorNumber) ==
  BASE_URL \o <<"/card/">> \o encodeChars(set) \o <<"/">>
           \o encodeURIComponent(collectorNumber)

\* handleGetSets, line 334
GetSetsUrl == BASE_URL \o <<"/sets">>

\* handleSearchCards, lines 319-326
SearchCardsUrlAlwaysPage(q, page, pageSize, order, unique, priorityChinese) ==
  BASE_URL \o <<"/result", "?", "q", "=">> \o encodeURIComponent(q)
  \o <<"&", "page", "=">>
  \o (IF Has(page) THEN numberText(page) ELSE <<"undefined">>)
  \o (IF Has(pageSize)
        THEN <<"&", "page_size", "=">> \o numberText(pageSize) ELSE <<>>)
  \o (IF Has(order) THEN <<"&", "order", "=">> \o encodeURIComponent(order) ELSE <<>>)
  \o (IF Has(unique) THEN <<"&", "unique", "=">> \o encodeURIComponent(unique) ELSE <<>>)
  \o (IF Has(priorityChinese)
        THEN <<"&", "priority_chinese", "=">> \o booleanText(priorityChinese)
        ELSE <<>>)
SearchCardsUrl(q, page, pageSize, order, unique, priorityChinese) ==
  BASE_URL \o <<"/result", "?", "q", "=">> \o encodeURIComponent(q)
  \o (IF Has(page) THEN <<"&", "page", "=">> \o numberText(page) ELSE <<>>)
  \o (IF Has(pageSize)
        THEN <<"&", "page_size", "=">> \o numberText(pageSize) ELSE <<>>)
  \o (IF Has(order) THEN <<"&", "order", "=">> \o encodeURIComponent(order) ELSE <<>>)
  \o (IF Has(unique) THEN <<"&", "unique", "=">> \o encodeURIComponent(unique) ELSE <<>>)
  \o (IF Has(priorityChinese)
        THEN <<"&", "priority_chinese", "=">> \o booleanText(priorityChinese)
        ELSE <<>>)

\* URLSearchParams.append followed by toString: the pairs joined by "&"
RECURSIVE paramsToString(_)
paramsToString(params) ==
  IF params = <<>> THEN <<>>
  ELSE <<Head(params)[1], "=">> \o formEncode(Head(params)[2])
       \o (IF Tail(params) = <<>> THEN <<>> ELSE <<"&">> \o paramsToString(Tail(params)))

\* handleGetSetCards, lines 348-361
GetSetCardsUrl(setCode, page, pageSize, order, priorityChinese) ==
  LET params ==
        (IF Has(page) THEN << <<"page", numberText(page)>> >> ELSE <<>>)
        \o (IF Has(pageSize)
              THEN << <<"page_size", numberText(pageSize)>> >> ELSE <<>>)
        \o (IF Has(order) THEN << <<"order", Val(order)>> >> ELSE <<>>)
        \o (IF Has(priorityChinese)
              THEN << <<"priority_chinese", booleanText(priorityChinese)>> >>
              ELSE <<>>)
      queryString == paramsToString(params)
  IN  BASE_URL \o <<"/set/">> \o encodeChars(toUpperCase(setCode)) \o <<"/cards">>
      \o (IF queryString # <<>> THEN <<"?">> \o queryString ELSE <<>>)

\* handleHzls, lines 374-378
HzlsUrl(targetSentence, cutFullImage, withLink) ==
  BASE_URL \o <<"/hzls", "?", "target_sentence", "=">> \o encodeURIComponent(targetSentence)
  \o (IF Has(cutFullImage)
        THEN <<"&", "cut_full_image", "=">> \o booleanText(cutFullImage) ELSE <<>>)
  \o (IF Has(withLink)
        THEN <<"&", "with_link", "=">> \o booleanText(withLink) ELSE <<>>)

(* ---------------- results and outcomes ---------------- *)
TextItem(t) == [type |-> "text", text |-> t]
ImageItem(d, m) == [type |-> "image", data |-> d, mimeType |-> m]
NoResult == [content |-> <<>>]

\* what a function hands to its caller: a returned result or a thrown exception
Return(r) == [kind |-> "return", result |-> r, message |-> <<>>]
Throw(m) == [kind |-> "throw", result |-> NoResult, message |-> m]

(* ---------------- the remote API's answers ---------------- *)
Statuses == {200, 404, 500}
statusText(status) ==
  CASE status = 200 -> <<"OK">>
    [] status = 404 -> <<"Not Found">>
    [] OTHER        -> <<"Internal Server Error">>

\* Response.ok of node-fetch
ok(status) == status >= 200 /\ status < 300

\* a parsed JSON value, as far as the code looks into it: null, or an object
\* with or without a message property (which may be the empty string)
JsonValues == {[isNull |-> TRUE,  message |-> <<>>],
               [isNull |-> FALSE, message |-> <<>>],
               [isNull |-> FALSE, message |-> << <<>> >>],
               [isNull |-> FALSE, message |-> << <<"no such set">> >>]}

\* a response body: JSON text, text that is no JSON, or a stream that fails
Bodies == {[kind |-> "json", value |-> v] : v \in JsonValues}
          \cup {[kind |-> k, value |-> [isNull |-> TRUE, message |-> <<>>]] :
                  k \in {"text", "broken"}}

ContentTypes == Opt({<<"image/png">>})
\* message of the exception a rejected fetch carries
FetchErrors == {<<"socket hang up">>}

\* JSON.stringify(data, null, 2)
stringify(v) ==
  IF v.isNull THEN <<"null">>
  ELSE IF Has(v.message) THEN <<"{", "message", ":">> \o Val(v.message) \o <<"}">>
  ELSE <<"{", "}">>

\* response.json(): the parsed value, or an exception
responseJson(body) ==
  CASE body.kind = "json" -> [thrown |-> FALSE, value |-> body.value, message |-> <<>>]
    [] body.kind = "text" -> [thrown |-> TRUE, value |-> body.value,
                              message |-> <<"invalid json response body">>]
    [] OTHER              -> [thrown |-> TRUE, value |-> body.value,
                              message |-> <<"Premature close">>]

\* response.text().catch(() => "")
responseTextOrEmpty(body) ==
  CASE body.kind = "json" -> stringify(body.value)
    [] body.kind = "text" -> <<"<html>">>
    [] OTHER              -> <<>>

\* response.arrayBuffer() and Buffer.from(buffer).toString('base64')
responseArrayBuffer(body) ==
  IF body.kind = "broken"
    THEN [thrown |-> TRUE, data |-> <<>>, message |-> <<"Premature close">>]
    ELSE [thrown |-> FALSE, data |-> <<"base64:">> \o responseTextOrEmpty(body),
          message |-> <<>>]

(* ---------------- handleSbwszResponse, lines 256-300 ---------------- *)
\* line 281
httpErrorTextNoStatus(status) == <<"HTTP error: ">> \o statusText(status)
httpErrorText(status) == <<"HTTP error ", ToString(status), ": ">> \o statusText(status)

\* lines 291-299
jsonResultFlagged(data) ==
  Return([content |-> <<TextItem(stringify(data))>>, isError |-> TRUE])
jsonResult(data) ==
  Return([content |-> <<TextItem(stringify(data))>>, isError |-> FALSE])

handleSbwszResponse(status, body) ==
  LET parsed == responseJson(body) IN
  IF ~ok(status)
    THEN LET truthy == ~parsed.thrown /\ ~parsed.value.isNull
                       /\ Has(parsed.value.message) /\ Val(parsed.value.message) # <<>>
         IN  IF truthy
               THEN Return([content |-> <<TextItem(<<"SBWSZ API error: ">>
                                            \o Val(parsed.value.message)
                                            \o <<" (status: ", ToString(status), ")">>)>>,
                            isError |-> TRUE])
               ELSE Return([content |-> <<TextItem(httpErrorText(status))>>,
                            isError |-> TRUE])
    ELSE IF parsed.thrown
           THEN Throw(parsed.message)
           ELSE jsonResult(parsed.value)

(* ---------------- handleHzls after the fetch, lines 380-433 ---------------- *)
hzlsCatchNoUrl(message, url) ==
  Return([content |-> <<TextItem(<<"hzls request failed: ">> \o message)>>,
          isError |-> TRUE])
hzlsCatch(message, url) ==
  Return([content |-> <<TextItem(<<"hzls request failed: ">> \o message),
                        TextItem(<<"hzls image link: ">> \o url)>>,
          isError |-> TRUE])

handleHzlsResponse(status, contentType, body, url) ==
  IF ~ok(status)
    THEN LET errorText == responseTextOrEmpty(body) IN
         Return([content |-> <<TextItem(<<"HTTP error ", ToString(status), ": ">>
                                  \o statusText(status)
                                  \o (IF errorText # <<>>
                                        THEN <<"response body: ">> \o errorText
                                        ELSE <<>>))>>,
                 isError |-> TRUE])
    ELSE LET buffer == responseArrayBuffer(body) IN
         IF buffer.thrown
           THEN hzlsCatch(buffer.message, url)
           ELSE Return([content |-> <<TextItem(<<"hzls generated the image">>),
                                      ImageItem(buffer.data,
                                                IF Has(contentType) THEN Val(contentType)
                                                ELSE <<"image/jpeg">>)>>,
                        isError |-> FALSE])

(* ---------------- the tools' input schemas, lines 53-236 ---------------- *)
RequiredArgs(name) ==
  CASE name = "get_card_by_set_and_number" -> {"set", "collector_number"}
    [] name = "search_cards"               -> {"q"}
    [] name = "get_set"                    -> {"set_code"}
    [] name = "get_set_cards"              -> {"set_code"}
    [] name = "hzls"                       -> {"target_sentence"}
    [] OTHER                               -> {}

OptionalArgs(name) ==
  CASE name = "search_cards"  -> {"page", "page_size", "order", "unique", "priority_chinese"}
    [] name = "get_set_cards" -> {"page", "page_size", "order", "priority_chinese"}
    [] name = "hzls"          -> {"cut_full_image", "with_link"}
    [] OTHER                  -> {}

(* ---------------- call_tool requests ---------------- *)
\* request.params.arguments with no property defined
NoArgs == [set |-> <<>>, collector_number |-> <<>>, q |-> <<>>, page |-> <<>>,
           page_size |-> <<>>, order |-> <<>>, unique |-> <<>>,
           priority_chinese |-> <<>>, set_code |-> <<>>, target_sentence |-> <<>>,
           cut_full_image |-> <<>>, with_link |-> <<>>]

GetCardArgs ==
  {[NoArgs EXCEPT !.set = s, !.collector_number = n] :
     s \in Opt(Strings), n \in Opt(Strings)}
SearchCardsArgs ==
  {[NoArgs EXCEPT !.q = q, !.page = p, !.page_size = ps, !.order = o, !.unique = u,
                  !.priority_chinese = pc] :
     q \in Opt(Strings), p \in Opt(PageNumbers), ps \in Opt(PageNumbers),
     o \in Opt(OrderStrings), u \in Opt(OrderStrings), pc \in Opt(BOOLEAN)}
GetSetArgs == {[NoArgs EXCEPT !.set_code = s] : s \in Opt(Strings)}
GetSetCardsArgs ==
  {[NoArgs EXCEPT !.set_code = s, !.page = p, !.page_size = ps, !.order = o,
                  !.priority_chinese = pc] :
     s \in Opt(Strings), p \in Opt(PageNumbers), ps \in Opt(PageNumbers),
     o \in Opt(OrderStrings), pc \in Opt(BOOLEAN)}
HzlsArgs ==
  {[NoArgs EXCEPT !.target_sentence = t, !.cut_full_image = c, !.with_link = w] :
     t \in Opt(Strings), c \in Opt(BOOLEAN), w \in Opt(BOOLEAN)}

\* the required arguments alone, and that call with one argument replaced by a
\* value of another JSON type
MinimalArgs(name) ==
  [k \in DOMAIN NoArgs |-> IF k \in RequiredArgs(name) THEN << <<"a">> >> ELSE <<>>]
ForeignFor(k) ==
  CASE k \in {"page", "page_size"} -> {JsNull, StringForNumber}
    [] k \in {"priority_chinese", "cut_full_image", "with_link"} ->
         {JsNull, StringForBoolean}
    [] OTHER -> {JsNull, NumberForString}
MistypedArgs(name) ==
  UNION {{[MinimalArgs(name) EXCEPT ![k] = v] : v \in ForeignFor(k)} :
           k \in RequiredArgs(name) \cup OptionalArgs(name)}

ArgsFor(name) ==
  CASE name = "get_card_by_set_and_number" -> GetCardArgs \cup MistypedArgs(name)
    [] name = "search_cards"               -> SearchCardsArgs \cup MistypedArgs(name)
    [] name = "get_set"                    -> GetSetArgs \cup MistypedArgs(name)
    [] name = "get_set_cards"              -> GetSetCardsArgs \cup MistypedArgs(name)
    [] name = "hzls"                       -> HzlsArgs \cup MistypedArgs(name)
    [] OTHER                               -> {NoArgs, [NoArgs EXCEPT !.q = << <<"a">> >>]}

\* every call_tool request of the model; hasArgs = FALSE is a request whose
\* params carry no arguments property
Requests ==
  {[name |-> n, hasArgs |-> FALSE, args |-> NoArgs] : n \in ToolNames}
  \cup UNION {{[name |-> n, hasArgs |-> TRUE, args |-> a] : a \in ArgsFor(n)} :
                n \in ToolNames}

(* ---------------- the CallTool handler, lines 455-521 ---------------- *)
\* "const response = await fetch(url)": one call of fetch; calls counts them
FetchAndRetry(u) ==
  [kind |-> "fetch", url |-> u, calls |-> 2, result |-> NoResult, message |-> <<>>]
Fetch(u) ==
  [kind |-> "fetch", url |-> u, calls |-> 1, result |-> NoResult, message |-> <<>>]
Done(o) ==
  [kind |-> o.kind, url |-> <<>>, calls |-> 0, result |-> o.result, message |-> o.message]

DestructureError == <<"Cannot destructure property of undefined">>
ToUpperCaseError == <<"Cannot read properties of undefined (reading 'toUpperCase')">>
NotAFunctionError == <<"toUpperCase is not a function">>
ToStringError == <<"Cannot read properties of null (reading 'toString')">>

\* x.toUpperCase() returns: x is a string
canUpperCase(o) == Has(o) /\ ~IsForeign(o)
\* the TypeError of x.toUpperCase() otherwise: undefined and null have no
\* properties, other values have no such method
upperCaseError(o) ==
  IF ~Has(o) \/ IsNull(o) THEN ToUpperCaseError ELSE NotAFunctionError

\* x !== undefined followed by x.toString(), lines 352-355: null throws
toStringNeverThrows(o) == FALSE
toStringThrows(o) == IsNull(o)

\* default branch of the switch, lines 499-508
unknownToolUnnamed(name) ==
  Return([content |-> <<TextItem(<<"Error: unknown tool name">>)>>, isError |-> TRUE])
unknownTool(name) ==
  Return([content |-> <<TextItem(<<"Error: unknown tool name \"", name, "\"">>)>>,
          isError |-> TRUE])

\* catch branch, lines 510-520
dispatchCatch(message) ==
  Return([content |-> <<TextItem(<<"Error: ">> \o message)>>, isError |-> TRUE])

\* the handler body without its try/catch
callToolTryNoAwait(raw) == raw

\* try { ... return await handleX(...) } catch: a thrown exception or a
\* rejected promise inside the try block is turned into a result
callToolTry(raw) ==
  IF raw.kind = "throw" THEN dispatchCatch(raw.message) ELSE raw

\* the handler up to its first await: either it is over (a result or an
\* exception) or a fetch of a URL has been issued
startCall(req) ==
  LET args == req.args IN
  CASE req.name = "get_card_by_set_and_number" ->
         IF ~req.hasArgs THEN Done(Throw(DestructureError))
         ELSE IF ~canUpperCase(args.set) THEN Done(Throw(upperCaseError(args.set)))
         ELSE Fetch(GetCardUrl(toUpperCase(Val(args.set)), args.collector_number))
    [] req.name = "search_cards" ->
         IF ~req.hasArgs THEN Done(Throw(DestructureError))
         ELSE Fetch(SearchCardsUrl(args.q, args.page, args.page_size, args.order,
                                   args.unique, args.priority_chinese))
    [] req.name = "get_sets" -> Fetch(GetSetsUrl)
    [] req.name = "get_set" ->
         IF ~req.hasArgs THEN Done(Throw(DestructureError))
         ELSE IF ~canUpperCase(args.set_code)
           THEN Done(Throw(upperCaseError(args.set_code)))
         ELSE Fetch(GetSetUrl(Val(args.set_code)))
    [] req.name = "get_set_cards" ->
         IF ~req.hasArgs THEN Done(Throw(DestructureError))
         ELSE IF ~canUpperCase(args.set_code)
           THEN Done(Throw(upperCaseError(args.set_code)))
         ELSE IF \/ toStringThrows(args.page)
                 \/ toStringThrows(args.page_size)
                 \/ toStringThrows(args.priority_chinese)
           THEN Done(Throw(ToStringError))
         ELSE Fetch(GetSetCardsUrl(Val(args.set_code), args.page, args.page_size,
                                   args.order, args.priority_chinese))
    [] req.name = "hzls" ->
         IF ~req.hasArgs THEN Done(Throw(DestructureError))
         ELSE Fetch(HzlsUrl(args.target_sentence, args.cut_full_image, args.with_link))
    [] OTHER -> Done(unknownTool(req.name))

\* the awaited fetch rejects (network exception)
afterFetchRejects(req, u, message) ==
  IF req.name = "hzls" THEN hzlsCatch(message, u) ELSE Throw(message)

\* the exception raised by reading the body, <<>> when there is none:
\* response.json() for five tools, response.text() or response.arrayBuffer()
\* for hzls
readError(req, body) ==
  IF req.name = "hzls"
    THEN responseArrayBuffer(body).message
    ELSE responseJson(body).message

\* the awaited fetch resolved and the body has been read (or failed to read)
afterBody(req, u, resp, body) ==
  IF req.name = "hzls"
    THEN handleHzlsResponse(resp.status, resp.contentType, body, u)
    ELSE handleSbwszResponse(resp.status, body)

(* ---------------- state ---------------- *)
VARIABLES
  pc,        \* position of the CallTool handler: idle, awaitFetch, awaitBody, returned
  request,   \* the call_tool request being handled
  url,       \* the URL of the outbound fetch of this dispatch
  fetches,   \* outbound fetch calls issued by this dispatch
  response,  \* the remote answer: status, content type and, once read, the body;
             \* error is the message of the exception fetch or the read raised
  outcome    \* what left the handler: a returned result or an exception

dvars == <<pc, request, url, fetches, response, outcome>>

VARIABLES
  env,         \* process.env: TRANSPORT and PORT, each set or not
  cli,         \* the command line: --http given or not, --port given or not
  mode,        \* starting, stdio or http
  listenPort,  \* the port httpServer.listen was called with, 0 when not listening
  pairs,       \* server/transport pairs constructed so far
  transport,   \* the transport instance the HTTP request handler closes over
  uuids,       \* calls of randomUUID so far
  reqs         \* the HTTP requests of the run

svars == <<env, cli, mode, listenPort, pairs, transport, uuids, reqs>>
vars == <<pc, request, url, fetches, response, outcome,
          env, cli, mode, listenPort, pairs, transport, uuids, reqs>>

NoRequest == [name |-> "", hasArgs |-> FALSE, args |-> NoArgs]
NoBody == [kind |-> "none", value |-> [isNull |-> TRUE, message |-> <<>>]]
NoResponse == [status |-> 0, contentType |-> <<>>, body |-> NoBody, error |-> <<>>]
NoOutcome == [kind |-> "none", result |-> NoResult, message |-> <<>>]

\* a call_tool request arrives and the handler runs to its first await
CallTool ==
  /\ pc = "idle"
  /\ \E req \in Requests :
       LET first == startCall(req) IN
       /\ request' = req
       /\ IF first.kind = "fetch"
            THEN /\ pc' = "awaitFetch"
                 /\ url' = first.url
                 /\ fetches' = fetches + first.calls
                 /\ outcome' = NoOutcome
            ELSE /\ pc' = "returned"
                 /\ url' = <<>>
                 /\ fetches' = fetches
                 /\ outcome' = callToolTry([kind |-> first.kind, result |-> first.result,
                                            message |-> first.message])
  /\ UNCHANGED response
  /\ UNCHANGED svars

FetchRejects ==
  /\ pc = "awaitFetch"
  /\ \E e \in FetchErrors :
       /\ response' = [response EXCEPT !.error = e]
       /\ outcome' = callToolTry(afterFetchRejects(request, url, e))
  /\ pc' = "returned"
  /\ UNCHANGED <<request, url, fetches>>
  /\ UNCHANGED svars

FetchResolves ==
  /\ pc = "awaitFetch"
  /\ \E status \in Statuses, ct \in ContentTypes :
       response' = [status |-> status, contentType |-> ct, body |-> NoBody,
                    error |-> <<>>]
  /\ pc' = "awaitBody"
  /\ UNCHANGED <<request, url, fetches, outcome>>
  /\ UNCHANGED svars

BodySettles ==
  /\ pc = "awaitBody"
  /\ \E body \in Bodies :
       /\ response' = [response EXCEPT !.body = body,
                                        !.error = readError(request, body)]
       /\ outcome' = callToolTry(afterBody(request, url, response, body))
  /\ pc' = "returned"
  /\ UNCHANGED <<request, url, fetches>>
  /\ UNCHANGED svars

\* the result is handed to the transport; the server waits for the next request
Deliver ==
  /\ pc = "returned"
  /\ pc' = "idle"
  /\ request' = NoRequest
  /\ url' = <<>>
  /\ fetches' = 0
  /\ response' = NoResponse
  /\ outcome' = NoOutcome
  /\ UNCHANGED svars

Next == CallTool \/ FetchRejects \/ FetchResolves \/ BodySettles \/ Deliver

(* ---------------- start-up and the HTTP front end, lines 527-635 ---------------- *)
Methods == {"GET", "POST", "DELETE"}
Paths == {"/mcp", "/other"}
EnvTransports == {<<"stdio">>, <<"http">>}
Ports == {8081}
DefaultPort == 3000
ErrorCode == -32000
\* the JSON null as an envelope id; a generated id u is <<u>>
Null == <<>>

\* request bodies, as token sequences
HttpBodies == {<<>>, <<"{">>, <<"[", "1">>, <<"1">>, <<"[", "1", "]">>,
               <<"{", "\"jsonrpc\":\"2.0\",\"method\":\"tools/call\"", "}">>}

\* JSON.parse(body) does not throw
RECURSIVE IsJsonText(_)
IsJsonText(b) ==
  \/ b \in {<<"null">>, <<"1">>, <<"{", "}">>, <<"[", "]">>}
  \/ /\ Len(b) = 3
     /\ b[1] = "{"
     /\ b[2] = "\"jsonrpc\":\"2.0\",\"method\":\"tools/call\""
     /\ b[3] = "}"
  \/ /\ Len(b) >= 3
     /\ b[1] = "["
     /\ b[Len(b)] = "]"
     /\ IsJsonText(SubSeq(b, 2, Len(b) - 1))

\* yargs(hideBin(process.argv)) with the two options and their defaults,
\* lines 540-551; the environment is not consulted
parseArgv(args) ==
  [http |-> args.http, port |-> IF Has(args.port) THEN Val(args.port) ELSE DefaultPort]

\* createErrorResponse, lines 527-536; uuid is the value randomUUID() returns
createErrorResponseNullId(message, uuid) ==
  [jsonrpc |-> "2.0", error |-> [code |-> ErrorCode, message |-> message], id |-> Null]
createErrorResponse(message, uuid) ==
  [jsonrpc |-> "2.0", error |-> [code |-> ErrorCode, message |-> message], id |-> <<uuid>>]

NoEnvelope == [jsonrpc |-> "", error |-> [code |-> 0, message |-> ""], id |-> Null]

\* line 569: req.method === "POST"; the variant also lets GET through
isPostOrGet(method) == method \in {"POST", "GET"}
isPost(method) == method = "POST"

ReqIds == 1..MaxReq

\* sentBy: who wrote the status line ("" while res.headersSent is false);
\* statusLines: status lines written on the response; threw: handleRequest threw
NoReq == [phase |-> "none", method |-> "", path |-> "", body |-> <<>>,
          handledBy |-> 0, status |-> 0, allow |-> "", envelope |-> NoEnvelope,
          sentBy |-> "", statusLines |-> 0, threw |-> FALSE]

\* line 591: if (!res.headersSent)
writes500Always(headersSent) == TRUE
writes500(headersSent) == ~headersSent

\* runServer, lines 539-630
RunServer ==
  /\ mode = "starting"
  /\ LET argv == parseArgv(cli) IN
     IF argv.http
       THEN /\ mode' = "http"
            /\ listenPort' = argv.port
       ELSE /\ mode' = "stdio"
            /\ listenPort' = 0
  /\ pairs' = pairs + 1
  /\ transport' = pairs + 1
  /\ UNCHANGED <<env, cli, uuids, reqs>>
  /\ UNCHANGED dvars

\* a request arrives, lines 564-569 and 597-611: anything but POST /mcp is
\* answered at once
HttpRequest(r) ==
  /\ mode = "http"
  /\ reqs[r].phase = "none"
  /\ \E method \in Methods, path \in Paths :
       LET q == [reqs[r] EXCEPT !.method = method, !.path = path] IN
       IF path = "/mcp"
         THEN IF isPost(method)
                THEN /\ reqs' = [reqs EXCEPT ![r] = [q EXCEPT !.phase = "readingBody"]]
                     /\ uuids' = uuids
                ELSE /\ reqs' = [reqs EXCEPT ![r] =
                                   [q EXCEPT !.phase = "done", !.status = 405,
                                             !.allow = "POST",
                                             !.sentBy = "server", !.statusLines = 1,
                                             !.envelope = createErrorResponse(
                                                            "Method Not Allowed",
                                                            uuids + 1)]]
                     /\ uuids' = uuids + 1
         ELSE /\ reqs' = [reqs EXCEPT ![r] =
                            [q EXCEPT !.phase = "done", !.status = 404,
                                      !.sentBy = "server", !.statusLines = 1,
                                      !.envelope = createErrorResponse("Not Found",
                                                                       uuids + 1)]]
              /\ uuids' = uuids + 1
  /\ UNCHANGED <<env, cli, mode, listenPort, pairs, transport>>
  /\ UNCHANGED dvars

\* the body has been read, lines 571-588: a parse failure is answered with
\* 400, anything else is handed to the transport
BodyRead(r) ==
  /\ reqs[r].phase = "readingBody"
  /\ \E body \in HttpBodies :
       LET q == [reqs[r] EXCEPT !.body = body] IN
       IF ~IsJsonText(body)
         THEN /\ reqs' = [reqs EXCEPT ![r] =
                            [q EXCEPT !.phase = "done", !.status = 400,
                                      !.sentBy = "server", !.statusLines = 1,
                                      !.envelope = createErrorResponse("Invalid JSON",
                                                                       uuids + 1)]]
              /\ uuids' = uuids + 1
         ELSE /\ reqs' = [reqs EXCEPT ![r] =
                            [q EXCEPT !.phase = "atTransport", !.handledBy = transport]]
              /\ uuids' = uuids
  /\ UNCHANGED <<env, cli, mode, listenPort, pairs, transport>>
  /\ UNCHANGED dvars

\* inside transport.handleRequest: the transport writes the status line and
\* headers of its response
TransportSendsHeaders(r) ==
  /\ reqs[r].phase = "atTransport"
  /\ reqs[r].sentBy = ""
  /\ \E status \in {200, 202, 400} :
       reqs' = [reqs EXCEPT ![r] = [@ EXCEPT !.status = status, !.sentBy = "transport",
                                             !.statusLines = @ + 1]]
  /\ UNCHANGED <<env, cli, mode, listenPort, pairs, transport, uuids>>
  /\ UNCHANGED dvars

\* transport.handleRequest returns, lines 588 and 596
TransportResponds(r) ==
  /\ reqs[r].phase = "atTransport"
  /\ reqs[r].sentBy = "transport"
  /\ reqs' = [reqs EXCEPT ![r] = [@ EXCEPT !.phase = "done"]]
  /\ UNCHANGED <<env, cli, mode, listenPort, pairs, transport, uuids>>
  /\ UNCHANGED dvars

\* transport.handleRequest throws, lines 589-595, before or after the
\* transport sent response headers
TransportThrows(r) ==
  /\ reqs[r].phase = "atTransport"
  /\ IF writes500(reqs[r].sentBy # "")
       THEN /\ reqs' = [reqs EXCEPT ![r] =
                          [@ EXCEPT !.phase = "done", !.threw = TRUE, !.status = 500,
                                    !.sentBy = IF @ = "" THEN "server" ELSE @,
                                    !.statusLines = @ + 1,
                                    !.envelope = createErrorResponse(
                                                   "internal server error",
                                                   uuids + 1)]]
            /\ uuids' = uuids + 1
       ELSE /\ reqs' = [reqs EXCEPT ![r] = [@ EXCEPT !.phase = "done", !.threw = TRUE]]
            /\ uuids' = uuids
  /\ UNCHANGED <<env, cli, mode, listenPort, pairs, transport>>
  /\ UNCHANGED dvars

ServerNext ==
  \/ RunServer
  \/ \E r \in ReqIds : HttpRequest(r)
  \/ \E r \in ReqIds : BodyRead(r)
  \/ \E r \in ReqIds : TransportSendsHeaders(r)
  \/ \E r \in ReqIds : TransportResponds(r)
  \/ \E r \in ReqIds : TransportThrows(r)

(* ---------------- specifications ---------------- *)
\* the dispatcher serving call_tool requests, in a server started without
\* flags: runServer has taken the stdio branch and bound the transport
Init ==
  /\ pc = "idle"
  /\ request = NoRequest
  /\ url = <<>>
  /\ fetches = 0
  /\ response = NoResponse
  /\ outcome = NoOutcome
  /\ env = [TRANSPORT |-> <<>>, PORT |-> <<>>]
  /\ cli = [http |-> FALSE, port |-> <<>>]
  /\ mode = "stdio"
  /\ listenPort = 0
  /\ pairs = 1
  /\ transport = 1
  /\ uuids = 0
  /\ reqs = [r \in ReqIds |-> NoReq]

Spec == Init /\ [][Next]_vars

\* start-up and the HTTP front end: the process as launched, with any
\* environment and command line
ServerInit ==
  /\ pc = "idle"
  /\ request = NoRequest
  /\ url = <<>>
  /\ fetches = 0
  /\ response = NoResponse
  /\ outcome = NoOutcome
  /\ env \in [TRANSPORT : Opt(EnvTransports), PORT : Opt(Ports)]
  /\ cli \in [http : BOOLEAN, port : Opt(Ports)]
  /\ mode = "starting"
  /\ listenPort = 0
  /\ pairs = 0
  /\ transport = 0
  /\ uuids = 0
  /\ reqs = [r \in ReqIds |-> NoReq]

SpecServer == ServerInit /\ [][ServerNext]_vars

(* ---------------- vocabulary of the properties ---------------- *)
Tokens(t) == {t[i] : i \in DOMAIN t}
TextItems(result) ==
  {result.content[i] : i \in {j \in DOMAIN result.content : result.content[j].type = "text"}}

\* a fully formed ToolCallResult
WellFormed(o) ==
  /\ o.kind = "return"
  /\ DOMAIN o.result = {"content", "isError"}
  /\ o.result.isError \in BOOLEAN
  /\ Len(o.result.content) >= 1

\* position of the "?" that opens the query string, 0 when there is none
QueryStart(u) ==
  IF \E i \in DOMAIN u : u[i] = "?"
    THEN CHOOSE i \in DOMAIN u : u[i] = "?" /\ \A j \in 1..(i - 1) : u[j] # "?"
    ELSE 0
PathOf(u) == IF QueryStart(u) = 0 THEN u ELSE SubSeq(u, 1, QueryStart(u) - 1)
\* positions at which a query parameter starts: its name is the token there
ParamStarts(u) ==
  IF QueryStart(u) = 0 THEN {}
  ELSE {i \in (QueryStart(u) + 1)..Len(u) : i = QueryStart(u) + 1 \/ u[i - 1] = "&"}
ParamCount(u, k) == Cardinality({i \in ParamStarts(u) : u[i] = k})

\* every argument has the type the schema declares
WellTyped(req) == \A k \in DOMAIN req.args : ~IsForeign(req.args[k])

IsMinimal(req) ==
  /\ req.hasArgs
  /\ WellTyped(req)
  /\ \A k \in DOMAIN req.args : Has(req.args[k]) <=> k \in RequiredArgs(req.name)

SameIgnoringCase(s, t) ==
  /\ Len(s) = Len(t)
  /\ \A i \in DOMAIN s : s[i] = t[i] \/ {s[i], t[i]} = {"a", "A"}

\* C1: every call_tool request ends in a result with non-empty content and an
\* explicit boolean isError, whatever the name, the arguments and the outcome
\* of the fetch; no exception leaves the handler.
C1_ResultAlwaysWellFormed ==
  /\ outcome.kind # "throw"
  /\ pc = "returned" => WellFormed(outcome)

\* a 2xx answer with an unparsable body, converted at the dispatch boundary
C1_Witness ==
  /\ pc = "returned"
  /\ request.name = "get_set"
  /\ response.status = 200
  /\ response.body.kind = "text"
  /\ outcome.kind = "return"
  /\ outcome.result.isError = TRUE
  /\ outcome.result.content = <<TextItem(<<"Error: ", "invalid json response body">>)>>

\* C2: an unregistered tool name gives isError = true and a text item that
\* contains the name, no outbound fetch is issued, nothing is thrown, and the
\* server goes back to waiting for the next request.
C2_UnknownToolState ==
  (request.name # "" /\ request.name \notin KnownTools) =>
    /\ fetches = 0
    /\ url = <<>>
    /\ pc = "returned"
    /\ WellFormed(outcome)
    /\ outcome.result.isError = TRUE
    /\ \E item \in TextItems(outcome.result) : request.name \in Tokens(item.text)

C2_UnknownToolIsSoftError ==
  /\ []C2_UnknownToolState
  /\ [][(request.name # "" /\ request.name \notin KnownTools)
          => (pc' = "idle" /\ request' = NoRequest /\ outcome' = NoOutcome)]_vars

C2_Witness ==
  /\ pc = "returned"
  /\ request.name = "not_a_tool"
  /\ outcome.result.isError = TRUE
  /\ "not_a_tool" \in Tokens(outcome.result.content[1].text)

\* C3: for a known tool, a remote status >= 400 gives isError = true and a
\* text item containing the status code, with or without a JSON message.
C3_RemoteErrorCarriesStatus ==
  (pc = "returned" /\ request.name \in KnownTools /\ response.status >= 400) =>
    /\ WellFormed(outcome)
    /\ outcome.result.isError = TRUE
    /\ \E item \in TextItems(outcome.result) :
         ToString(response.status) \in Tokens(item.text)

\* a 404 whose body is not JSON: the fallback text with the status line
C3_Witness ==
  /\ pc = "returned"
  /\ request.name = "get_sets"
  /\ response.status = 404
  /\ response.body.kind = "text"
  /\ outcome.result.content = <<TextItem(<<"HTTP error ", "404", ": ", "Not Found">>)>>

\* C4: each of the six tools, called with only its required arguments, gives
\* isError = false on HTTP 200 with valid JSON; hzls on HTTP 200 with a binary
\* body gives a text notice followed by an image item.
C4_MinimalCallSucceeds ==
  (/\ pc = "returned"
   /\ request.name \in KnownTools
   /\ IsMinimal(request)
   /\ response.status = 200
   /\ IF request.name = "hzls" THEN response.body.kind # "broken"
                               ELSE response.body.kind = "json") =>
    /\ WellFormed(outcome)
    /\ outcome.result.isError = FALSE
    /\ request.name = "hzls" =>
         /\ Len(outcome.result.content) = 2
         /\ outcome.result.content[1].type = "text"
         /\ outcome.result.content[2].type = "image"

C4_Witness ==
  /\ pc = "returned"
  /\ request.name = "get_card_by_set_and_number"
  /\ IsMinimal(request)
  /\ response.status = 200
  /\ response.body.kind = "json"
  /\ outcome.result.isError = FALSE

C6_SetCodeUpperCased ==
  (url # <<>> /\ request.name \in {"get_set", "get_set_cards"}) =>
    LET code == Val(request.args.set_code)
        path == PathOf(url)
        tail == IF request.name = "get_set" THEN <<>> ELSE <<"/cards">>
    IN  /\ Len(path) = 2 + Len(code) + Len(tail)
        /\ SubSeq(path, 1, 2) = BASE_URL \o <<"/set/">>
        /\ SubSeq(path, 3 + Len(code), Len(path)) = tail
        /\ \A i \in DOMAIN code :
             path[2 + i] = CASE code[i] = "a" -> "A"
                             [] code[i] = "&" -> "%26"
                             [] OTHER         -> code[i]
        /\ \A t \in Strings :
             SameIgnoringCase(t, code) =>
               path = PathOf(IF request.name = "get_set"
                               THEN GetSetUrl(t)
                               ELSE GetSetCardsUrl(t, request.args.page,
                                                   request.args.page_size,
                                                   request.args.order,
                                                   request.args.priority_chinese))

C6_Witness ==
  /\ pc = "awaitFetch"
  /\ request.name = "get_set"
  /\ request.args.set_code = << <<"a", "A">> >>
  /\ url = BASE_URL \o <<"/set/", "A", "A">>

\* the request r is a POST to /mcp whose body has been read
PostedBody(r) ==
  /\ reqs[r].phase \in {"atTransport", "done"}
  /\ reqs[r].method = "POST"
  /\ reqs[r].path = "/mcp"

\* C7: a POST to /mcp whose body is not parseable JSON is answered with 400
\* and a JSON-RPC error envelope with the fixed code and a non-null id that no
\* other response carries; the transport never sees the request.
C7_MalformedJsonIs400 ==
  \A r \in ReqIds :
    (PostedBody(r) /\ ~IsJsonText(reqs[r].body)) =>
      /\ reqs[r].phase = "done"
      /\ reqs[r].status = 400
      /\ reqs[r].envelope.jsonrpc = "2.0"
      /\ reqs[r].envelope.error.code = ErrorCode
      /\ reqs[r].envelope.id # Null
      /\ \A r2 \in ReqIds \ {r} : reqs[r2].envelope.id # reqs[r].envelope.id
      /\ reqs[r].handledBy = 0

\* two malformed bodies answered, each with its own id
C7_Witness ==
  /\ reqs[1].phase = "done" /\ reqs[1].body = <<"{">> /\ reqs[1].status = 400
  /\ reqs[2].phase = "done" /\ reqs[2].body = <<>> /\ reqs[2].status = 400
  /\ reqs[1].method = "POST" /\ reqs[2].method = "POST"
  /\ reqs[1].envelope.id # Null
  /\ reqs[2].envelope.id # reqs[1].envelope.id

\* C8: a request to /mcp with a method other than POST is answered with 405
\* and the header Allow: POST, and is never handed to the transport.
C8_NonPostIs405 ==
  \A r \in ReqIds :
    (reqs[r].phase # "none" /\ reqs[r].path = "/mcp" /\ reqs[r].method # "POST") =>
      /\ reqs[r].phase = "done"
      /\ reqs[r].status = 405
      /\ reqs[r].allow = "POST"
      /\ reqs[r].handledBy = 0

C8_Witness ==
  \E r \in ReqIds :
    /\ reqs[r].phase = "done"
    /\ reqs[r].path = "/mcp"
    /\ reqs[r].method = "GET"
    /\ reqs[r].status = 405
    /\ reqs[r].allow = "POST"

\* C9: started with TRANSPORT=http in the environment and no CLI flags, the
\* process binds the HTTP transport and listens on PORT (default 8081); with
\* TRANSPORT unset or stdio it binds stdio.
C9_EnvSelectsTransport ==
  (mode # "starting" /\ ~cli.http /\ ~Has(cli.port)) =>
    IF env.TRANSPORT = << <<"http">> >>
      THEN /\ mode = "http"
           /\ listenPort = IF Has(env.PORT) THEN Val(env.PORT) ELSE 8081
      ELSE mode = "stdio"

\* C10: POST /mcp requests in flight together are each handled by a
\* server/transport pair of their own.
C10_OwnPairPerRequest ==
  \A r1, r2 \in ReqIds :
    (r1 # r2 /\ reqs[r1].phase = "atTransport" /\ reqs[r2].phase = "atTransport") =>
      reqs[r1].handledBy # reqs[r2].handledBy

\* the arguments break the tool's schema: absent although a field is
\* required, a required field missing, or a field of another type
Malformed(req) ==
  /\ RequiredArgs(req.name) # {}
  /\ \/ ~req.hasArgs
     \/ \E k \in RequiredArgs(req.name) : ~Has(req.args[k])
     \/ ~WellTyped(req)

\* the malformations on which the handler itself raises a TypeError
FaultsLocally(req) ==
  \/ ~req.hasArgs /\ req.name # "get_sets"
  \/ /\ req.name = "get_card_by_set_and_number"
     /\ (~Has(req.args.set) \/ IsForeign(req.args.set))
  \/ /\ req.name \in {"get_set", "get_set_cards"}
     /\ (~Has(req.args.set_code) \/ IsForeign(req.args.set_code))
  \/ /\ req.name = "get_set_cards"
     /\ \E k \in {"page", "page_size", "priority_chinese"} : IsNull(req.args[k])

TypeErrors == {DestructureError, ToUpperCaseError, NotAFunctionError, ToStringError}

\* C11 as stated: a known tool called with malformed arguments is never
\* faulted locally; the arguments go out in an outbound call.
C11_MalformedAlwaysForwarded ==
  (pc # "idle" /\ request.name \in KnownTools /\ Malformed(request)) =>
    /\ fetches = 1
    /\ url # <<>>

\* C11 amended: malformed arguments are never checked against the schema; they
\* go out in an outbound call, coerced to text, unless the handler's own use
\* of them raises a TypeError (arguments absent, set or set_code missing or no
\* string, a null page, page_size or priority_chinese of get_set_cards), in
\* which case no call is made and the result carries that TypeError.
C11_MalformedForwardedUnlessTypeError ==
  (pc # "idle" /\ request.name \in KnownTools /\ Malformed(request)) =>
    IF FaultsLocally(request)
      THEN /\ pc = "returned"
           /\ fetches = 0
           /\ url = <<>>
           /\ WellFormed(outcome)
           /\ outcome.result.isError = TRUE
           /\ \E e \in TypeErrors :
                outcome.result.content = <<TextItem(<<"Error: ">> \o e)>>
      ELSE /\ fetches = 1
           /\ url # <<>>
           /\ \A k \in RequiredArgs(request.name) :
                ~Has(request.args[k]) => "undefined" \in Tokens(url)
           /\ \A k \in RequiredArgs(request.name) \cup OptionalArgs(request.name) :
                IsForeign(request.args[k]) => request.args[k][1][1] \in Tokens(url)

\* get_set_cards with page: null faults in page.toString() before any fetch
C11_Witness ==
  /\ pc = "returned"
  /\ request.name = "get_set_cards"
  /\ request.args.page = JsNull
  /\ fetches = 0
  /\ outcome.result.content = <<TextItem(<<"Error: ">> \o ToStringError)>>

\* search_cards with page: null is forwarded as page=null
C11_ForwardedWitness ==
  /\ pc = "awaitFetch"
  /\ request.name = "search_cards"
  /\ request.args.page = JsNull
  /\ url = BASE_URL \o <<"/result", "?", "q", "=", "a", "&", "page", "=", "null">>

\* C12 as stated: every dispatch of a known tool issues exactly one outbound
\* request.
C12_ExactlyOneFetch ==
  (pc = "returned" /\ request.name \in KnownTools) => fetches = 1

\* C12 amended: a dispatch of a known tool issues exactly one outbound request
\* when the handler's use of the arguments raises no TypeError, whatever the
\* outcome of the call, and none when it does; the request is issued on the
\* way to the handler's first await and never again (no retry, no fan-out).
C12_FetchCount ==
  (pc # "idle" /\ request.name \in KnownTools) =>
    fetches = IF FaultsLocally(request) THEN 0 ELSE 1

C12_AtMostOneFetchNoRetry ==
  /\ []C12_FetchCount
  /\ [][fetches' > fetches => (pc = "idle" /\ fetches' = 1)]_vars

\* a network exception, reported without a second attempt
C12_Witness ==
  /\ pc = "returned"
  /\ request.name = "search_cards"
  /\ response.status = 0
  /\ fetches = 1
  /\ outcome.result.isError = TRUE

\* C13: when handing a parsed POST /mcp request to the transport raises an
\* exception, the server writes 500 with the error envelope if and only if no
\* response headers had been sent; a response never gets a second status
\* line, and the server process keeps running.
C13_Http500OnlyBeforeHeaders ==
  \A r \in ReqIds :
    reqs[r].threw =>
      /\ mode = "http"
      /\ reqs[r].phase = "done"
      /\ reqs[r].statusLines = 1
      /\ reqs[r].sentBy \in {"server", "transport"}
      /\ reqs[r].sentBy = "server" =>
           /\ reqs[r].status = 500
           /\ reqs[r].envelope.jsonrpc = "2.0"
           /\ reqs[r].envelope.error.code = ErrorCode
           /\ reqs[r].envelope.id # Null
      /\ reqs[r].sentBy = "transport" =>
           /\ reqs[r].status # 500
           /\ reqs[r].envelope = NoEnvelope

\* one request threw before its headers, the other after them
C13_Witness ==
  /\ reqs[1].threw /\ reqs[1].sentBy = "server" /\ reqs[1].status = 500
  /\ reqs[2].threw /\ reqs[2].sentBy = "transport" /\ reqs[2].status = 200

\* t contains u as a run of consecutive tokens
ContainsSeq(t, u) ==
  \E i \in 1..(Len(t) - Len(u) + 1) : SubSeq(t, i, i + Len(u) - 1) = u

\* the fetch or the reading of the body raised an exception
Raised == pc = "returned" /\ request.name \in KnownTools /\ response.error # <<>>

\* C14 as stated: for hzls an exception of the fetch or of reading the body
\* gives isError = true with the exception message and the request URL in the
\* content; for the other five tools it gives isError = true with the
\* exception message and no item containing the request URL.
C14_ExceptionEchoedHzlsOnlyUrl ==
  Raised =>
    /\ WellFormed(outcome)
    /\ outcome.result.isError = TRUE
    /\ \E item \in TextItems(outcome.result) : ContainsSeq(item.text, response.error)
    /\ IF request.name = "hzls"
         THEN \E item \in TextItems(outcome.result) : ContainsSeq(item.text, url)
         ELSE \A item \in TextItems(outcome.result) : ~ContainsSeq(item.text, url)

\* C14 amended: an exception of the fetch, or of reading the body of a 2xx
\* answer, gives for hzls isError = true with two text items, the failure text
\* with the exception message and the link text with the request URL, and for
\* the other five tools isError = true with the single item "Error: " plus the
\* exception message and no item with the URL.  An exception of
\* reading the body of a non-2xx answer is swallowed for every tool: the
\* result is the HTTP status error without the exception message.
C14_ExceptionResult ==
  Raised =>
    /\ WellFormed(outcome)
    /\ outcome.result.isError = TRUE
    /\ IF response.status # 0 /\ ~ok(response.status)
         THEN /\ outcome.result.content =
                   <<TextItem(<<"HTTP error ", ToString(response.status), ": ">>
                              \o statusText(response.status))>>
              /\ ~ContainsSeq(outcome.result.content[1].text, response.error)
         ELSE IF request.name = "hzls"
           THEN outcome.result.content =
                  <<TextItem(<<"hzls request failed: ">> \o response.error),
                    TextItem(<<"hzls image link: ">> \o url)>>
           ELSE outcome.result.content = <<TextItem(<<"Error: ">> \o response.error)>>

\* hzls whose image body fails to arrive after a 200
C14_Witness ==
  /\ pc = "returned"
  /\ request.name = "hzls"
  /\ response.status = 200
  /\ response.body.kind = "broken"
  /\ Len(outcome.result.content) = 2
  /\ ContainsSeq(outcome.result.content[2].text, url)

====
